---- MODULE Spec2Model ----
(***************************************************************************)
(* State-machine model of the commute-map front end: the Home root         *)
(* component (city-list fetch, selection toggle, exit-animation callback), *)
(* the Carousel subset computation, the ThumbnailGrid labels, the App      *)
(* route table and the stand-alone MapView.                                *)
(*                                                                         *)
(* Modelling conventions                                                   *)
(*  - A JavaScript value is a record [t, arr, s, n]: t is its type tag,    *)
(*    arr its elements when it is an array, s its text when it is a        *)
(*    string, n its value when it is a number.                             *)
(*  - A URL path is the sequence of its segments: <<>> is "/",             *)
(*    <<"map", c>> is "/map/c", <<"map">> is "/map".                       *)
(*  - Event handlers read the state of the latest render.                  *)
(*  - Passive effects (useEffect) of a render run before the next event    *)
(*    is handled.                                                          *)
(***************************************************************************)
EXTENDS Integers, Sequences, FiniteSets, TLC

VARIABLES
    fetchState,    \* "pending" | "done": the one GET /cities request
    response,      \* outcome of the request once it is done
    cities,        \* Home state: cities (a JavaScript value)
    logged,        \* console.error has been called by the fetch chain
    crashed,       \* a render threw; React unmounted the tree
    selectedCity,  \* Home state: selectedCity (Null or an identifier)
    isMapVisible,  \* Home state: isMapVisible
    isClosing,     \* Home state: isClosing
    route,         \* current location of the router
    back,          \* the history entry directly behind the current one, if any
    frames         \* children kept by AnimatePresence (present or exiting)

vars == <<fetchState, response, cities, logged, crashed, selectedCity,
          isMapVisible, isClosing, route, back, frames>>

----------------------------------------------------------------------------
(* Bounds of the model *)

\* longest backend list enumerated exhaustively over ShortIds
MaxLen == 1

\* most overlay frames that play their exit animation at the same time
MaxExiting == 1

----------------------------------------------------------------------------
(* JavaScript values *)

Null == "null"

JsArray(a)  == [t |-> "array",     arr |-> a,    s |-> "", n |-> 0]
JsString(x) == [t |-> "string",    arr |-> <<>>, s |-> x,  n |-> 0]
JsNumber(k) == [t |-> "number",    arr |-> <<>>, s |-> "", n |-> k]
JsNull      == [t |-> "null",      arr |-> <<>>, s |-> "", n |-> 0]
JsUndefined == [t |-> "undefined", arr |-> <<>>, s |-> "", n |-> 0]
JsObject    == [t |-> "object",    arr |-> <<>>, s |-> "", n |-> 0]

\* ToBoolean of the language: what `a || b` and `!a` test
Truthy(v) ==
    CASE v.t = "undefined" -> FALSE
      [] v.t = "null"      -> FALSE
      [] v.t = "string"    -> v.s # ""
      [] v.t = "number"    -> v.n # 0
      [] OTHER             -> TRUE

\* a || b
JsOr(a, b) == IF Truthy(a) THEN a ELSE b

Range(s) == {s[i] : i \in 1..Len(s)}

----------------------------------------------------------------------------
(* Static tables *)

cityNames ==
    [leeds1  |-> "Leeds - Train Station",
     leeds2  |-> "Leeds - Beeston",
     leeds3  |-> "Leeds - Stourton",
     leeds4  |-> "Leeds - Burley",
     london1 |-> "London - Charing Cross",
     london2 |-> "London - Islington",
     london3 |-> "London - Hackney",
     london4 |-> "London - Islington",
     london5 |-> "London - Canning Town",
     london6 |-> "London - Seven Sisters",
     london7 |-> "London - Willesden"]

\* cityNames[city]: property lookup, undefined when the key is absent
NameLookup(city) ==
    IF city \in DOMAIN cityNames THEN JsString(cityNames[city])
    ELSE JsUndefined

\* the ids the Carousel appends to the backend list
FallbackCities == <<"leeds1", "leeds2", "london1", "london2">>

\* slice(0, 8)
CarouselLimit == 8

----------------------------------------------------------------------------
(* Carousel: the subset computed by its effect *)

\* the filter left out
FilterNothing(all, sel) == all

\* allCities.filter(city => city !== selectedCity)
FilterSelected(all, sel) == SelectSeq(all, LAMBDA c : c # sel)

\* [...new Set(list)]: first occurrences, in insertion order
RECURSIVE Dedupe(_)
Dedupe(list) ==
    IF list = <<>> THEN <<>>
    ELSE LET init == Dedupe(SubSeq(list, 1, Len(list) - 1))
             x    == list[Len(list)]
         IN  IF x \in Range(init) THEN init ELSE Append(init, x)

\* list.slice(0, k)
Slice(list, k) == SubSeq(list, 1, IF Len(list) < k THEN Len(list) ELSE k)

\* the fallback ids spread before the backend list
FallbackFirst(list) == FallbackCities \o list

\* [...cities, 'leeds1', 'leeds2', 'london1', 'london2']
AllCities(list) == list \o FallbackCities

\* finalCities of the effect
CarouselCities(list, sel) ==
    Slice(Dedupe(FilterSelected(AllCities(list), sel)), CarouselLimit)

\* {cityNames[city] || city}: label of a grid thumbnail and of a carousel entry
ThumbnailLabel(city) == JsOr(NameLookup(city), JsString(city))

\* <h2>{cityNames[selectedCity]}</h2>: title of the overlay panel
OverlayTitle(city) == NameLookup(city)

\* text React puts in the document for a child value
RenderedText(v) == IF v.t = "string" THEN v.s ELSE ""

----------------------------------------------------------------------------
(* Routing *)

RootRoute == <<>>
MapRoute(city) == <<"map", city>>

\* <Route path="/*" element={<Home />} />: the element rendered for a path
RouteElement(path) == "Home"

\* useParams() of a detail path /map/:city
CityParam(path) ==
    IF Len(path) >= 2 /\ path[1] = "map" THEN JsString(path[2]) ELSE JsUndefined

\* MapView: what the stand-alone detail view returns
MapViewRender(path) ==
    IF ~Truthy(CityParam(path)) THEN "NoCityError" ELSE "Heatmap"

\* what the application shows for a path
AppView(path) ==
    IF RouteElement(path) = "MapView" THEN MapViewRender(path) ELSE "Grid"

\* navigate(to): push a history entry; the entry left is now the one behind
Navigate(to) ==
    /\ route' = to
    /\ back'  = <<route>>

----------------------------------------------------------------------------
(* Inputs *)

\* identifiers of the exhaustively enumerated backend lists: a fallback id,
\* a registered id that is no fallback, and an id the registry lacks
ShortIds == {"leeds1", "london3", "paris1"}

RECURSIVE SeqsUpTo(_, _)
SeqsUpTo(S, k) ==
    IF k = 0 THEN {<<>>}
    ELSE LET shorter == SeqsUpTo(S, k - 1)
         IN  shorter \cup {Append(q, x) : q \in shorter, x \in S}

\* further backend lists: two short ones, one of them with a repeated entry,
\* and one longer than the carousel with a repeated entry and a fallback id
ExtraLists ==
    {<<"leeds1", "london3">>,
     <<"paris1", "paris1">>,
     <<"leeds3", "leeds4", "london3", "leeds1", "london4", "london5",
       "leeds3", "london6">>}

BackendLists == SeqsUpTo(ShortIds, MaxLen) \cup ExtraLists

\* values of the "cities" field of a JSON body, other than lists
OtherFields ==
    {JsUndefined, JsNull, JsString(""), JsString("leeds1"), JsNumber(0),
     JsNumber(7), JsObject}

\* outcomes of GET /cities
\*   kind   "network_error": the request itself fails
\*   ok     res.ok (2xx status)
\*   parses the body is JSON
\*   object the JSON value is an object (otherwise it is null)
\*   field  the value of its "cities" field (undefined when missing)
Outcome(kind, ok, parses, object, field) ==
    [kind |-> kind, ok |-> ok, parses |-> parses, object |-> object,
     field |-> field]

NoResponse == Outcome("none", FALSE, FALSE, FALSE, JsUndefined)

Responses ==
    {Outcome("network_error", FALSE, FALSE, FALSE, JsUndefined),
     Outcome("http", FALSE, TRUE, TRUE, JsArray(<<"leeds1">>)),
     Outcome("http", TRUE, FALSE, FALSE, JsUndefined),
     Outcome("http", TRUE, TRUE, FALSE, JsUndefined)}
    \cup {Outcome("http", TRUE, TRUE, TRUE, f) : f \in OtherFields}
    \cup {Outcome("http", TRUE, TRUE, TRUE, JsArray(l)) : l \in BackendLists}

\* paths a session can start at (a typed URL or a followed link)
EntryRoutes == {RootRoute, <<"map">>, MapRoute("leeds1")}

----------------------------------------------------------------------------
(* Overlay frames: the keyed children of AnimatePresence                   *)
(*   key       React key of the outer motion.div                           *)
(*   id        identity of the mounted instance                            *)
(*   exiting   the child left the tree and plays its exit animation        *)
(*   sel       selectedCity prop of the Carousel inside                    *)
(*   displayed Carousel state displayedCities                              *)
(*   pending   the Carousel effect has not run for the current props       *)

\* one key for every city
FrameKeyFixed(sel) == "overlay"

\* key={selectedCity}
FrameKey(sel) == sel

FreshId(fs) == CHOOSE n \in 0..Cardinality(fs) : \A f \in fs : f.id # n

Exiting(fs) == {f \in fs : f.exiting}
Present(fs) == {f \in fs : ~f.exiting}

\* The children AnimatePresence holds after Home renders with the given
\* selectedCity and isMapVisible: a child whose key is rendered stays (or
\* re-enters) as the same instance, a child whose key is no longer rendered
\* exits, a key seen for the first time mounts a new instance.
RenderFrames(fs, sel, visible) ==
    IF sel = Null THEN {}
    ELSE LET target == IF visible THEN {FrameKey(sel)} ELSE {}
             kept   == {[f EXCEPT !.exiting = FALSE, !.sel = sel,
                                  !.pending = f.pending \/ f.sel # sel] :
                           f \in {g \in fs : g.key \in target}}
             gone   == {[f EXCEPT !.exiting = TRUE] :
                           f \in {g \in fs : g.key \notin target}}
             new    == {[key |-> k, id |-> FreshId(fs), exiting |-> FALSE,
                         sel |-> sel, displayed |-> <<>>, pending |-> TRUE] :
                           k \in {k2 \in target : \A g \in fs : g.key # k2}}
         IN  kept \cup gone \cup new

EffectsFlushed == \A f \in frames : ~f.pending

----------------------------------------------------------------------------
(* Initial state: Home has mounted, the request is in flight *)

Init ==
    /\ fetchState = "pending"
    /\ response = NoResponse
    /\ cities = JsArray(<<>>)
    /\ logged = FALSE
    /\ crashed = FALSE
    /\ selectedCity = Null
    /\ isMapVisible = FALSE
    /\ isClosing = FALSE
    /\ route \in EntryRoutes
    /\ back = <<>>
    /\ frames = {}

----------------------------------------------------------------------------
(* The fetch chain of Home's mount effect *)

\* the chain reaches .catch: fetch rejects, !res.ok throws, res.json()
\* rejects, or reading .cities of null throws
FetchRejects(r) ==
    \/ r.kind = "network_error"
    \/ ~r.ok
    \/ ~r.parses
    \/ ~r.object

\* data.cities || []
CitiesOf(r) == JsOr(r.field, JsArray(<<>>))

\* cities.map(...) of ThumbnailGrid throws unless cities is an array
GridThrows(v) == v.t # "array"

FetchSettles(r) ==
    /\ fetchState = "pending"
    /\ fetchState' = "done"
    /\ response' = r
    /\ IF FetchRejects(r)
       THEN /\ logged' = TRUE
            /\ UNCHANGED <<cities, crashed>>
       ELSE /\ cities' = CitiesOf(r)
            /\ crashed' = GridThrows(CitiesOf(r))
            /\ UNCHANGED logged
    /\ UNCHANGED <<selectedCity, isMapVisible, isClosing, route, back, frames>>

----------------------------------------------------------------------------
(* Home: the selection toggle *)

\* if (selectedCity === city)
SameCity(city) == selectedCity = city

\* the closing branch clearing the selection at once
ClosingSelectionCleared(city) == Null

\* selectedCity after the closing branch, which leaves it alone
ClosingSelection(city) == selectedCity

\* handleSelect(city), followed by the render of the new state
handleSelect(city) ==
    IF SameCity(city)
    THEN /\ isClosing' = TRUE
         /\ isMapVisible' = FALSE
         /\ selectedCity' = ClosingSelection(city)
         /\ frames' = RenderFrames(frames, ClosingSelection(city), FALSE)
         /\ UNCHANGED <<route, back>>
    ELSE /\ selectedCity' = city
         /\ isMapVisible' = TRUE
         /\ isClosing' = FALSE
         /\ Navigate(MapRoute(city))
         /\ frames' = RenderFrames(frames, city, TRUE)

\* an event can be handled: the tree is mounted and effects have run
Interactive == ~crashed /\ EffectsFlushed

\* the click would not leave more frames exiting than the model follows
WithinExiting == Cardinality(Exiting(frames')) <= MaxExiting

\* click on the i-th thumbnail of the grid
GridClick(i) ==
    /\ Interactive
    /\ i \in 1..Len(cities.arr)
    /\ handleSelect(cities.arr[i])
    /\ WithinExiting
    /\ UNCHANGED <<fetchState, response, cities, logged, crashed>>

\* click on the i-th entry of the carousel of the selected city's frame
CarouselClick(f, i) ==
    /\ Interactive
    /\ f \in frames
    /\ f.sel = selectedCity
    /\ i \in 1..Len(f.displayed)
    /\ handleSelect(f.displayed[i])
    /\ WithinExiting
    /\ UNCHANGED <<fetchState, response, cities, logged, crashed>>

\* click on the close affordance of the selected city's frame:
\* onToggle={() => handleSelect(selectedCity)}
ToggleClick(f) ==
    /\ Interactive
    /\ f \in frames
    /\ f.sel = selectedCity
    /\ handleSelect(selectedCity)
    /\ WithinExiting
    /\ UNCHANGED <<fetchState, response, cities, logged, crashed>>

----------------------------------------------------------------------------
(* Carousel: the effect after a render with new props *)

CarouselEffect(f) ==
    /\ ~crashed
    /\ f \in frames
    /\ f.pending
    /\ frames' = (frames \ {f}) \cup
                 {[f EXCEPT !.displayed = CarouselCities(cities.arr, f.sel),
                            !.pending = FALSE]}
    /\ UNCHANGED <<fetchState, response, cities, logged, crashed,
                   selectedCity, isMapVisible, isClosing, route, back>>

----------------------------------------------------------------------------
(* AnimatePresence: an exit animation ends *)

\* the callback testing the wrong flag
ExitClearsWhenVisible == isMapVisible

\* the callback without its test
ExitClearsAlways == TRUE

\* if (isClosing) of onExitComplete
ExitClears == isClosing

\* The exit animation of frame f ends and f is removed.  When no other child
\* is still exiting, AnimatePresence calls onExitComplete.
ExitComplete(f) ==
    /\ Interactive
    /\ f \in frames
    /\ f.exiting
    /\ IF Exiting(frames \ {f}) = {} /\ ExitClears
       THEN /\ selectedCity' = Null
            /\ Navigate(RootRoute)
            /\ frames' = RenderFrames(frames \ {f}, Null, isMapVisible)
       ELSE /\ frames' = frames \ {f}
            /\ UNCHANGED <<selectedCity, route, back>>
    /\ UNCHANGED <<fetchState, response, cities, logged, crashed,
                   isMapVisible, isClosing>>

----------------------------------------------------------------------------
(* Browser session history *)

\* the browser's Back button: the router follows the location, Home's state
\* is untouched (older entries and entries ahead are not followed)
GoBack ==
    /\ back # <<>>
    /\ route' = back[1]
    /\ back' = <<>>
    /\ UNCHANGED <<fetchState, response, cities, logged, crashed,
                   selectedCity, isMapVisible, isClosing, frames>>

----------------------------------------------------------------------------
(* Specification *)

Next ==
    \/ \E r \in Responses : FetchSettles(r)
    \/ \E i \in 1..Len(cities.arr) : GridClick(i)
    \/ \E f \in frames : \E i \in 1..Len(f.displayed) : CarouselClick(f, i)
    \/ \E f \in frames : ToggleClick(f)
    \/ \E f \in frames : CarouselEffect(f)
    \/ \E f \in frames : ExitComplete(f)
    \/ GoBack

Spec == Init /\ [][Next]_vars

\* Fairness: an exit animation that has started ends (its transition has a
\* fixed duration).
FairSpec == Spec /\ WF_vars(\E f \in frames : ExitComplete(f))

----------------------------------------------------------------------------
(* Vocabulary of the properties *)

\* every identifier a session can meet
Ids == UNION {Range(l) : l \in BackendLists} \cup Range(FallbackCities)

\* the overlay of city x is open
OpenCity(x) == selectedCity = x /\ isMapVisible /\ ~isClosing

\* city x is being closed: its exit animation is in flight
ClosingCity(x) == selectedCity = x /\ isClosing /\ ~isMapVisible

\* nothing is selected, no overlay is shown, the route is the root
Closed == selectedCity = Null /\ frames = {} /\ route = RootRoute

\* identities of the frames that are in the tree and not exiting
PresentIds(fs) == {f.id : f \in Present(fs)}

NoDuplicates(list) ==
    \A i, j \in 1..Len(list) : list[i] = list[j] => i = j

\* position of the first occurrence of x in list
FirstIndex(list, x) ==
    CHOOSE i \in 1..Len(list) :
        list[i] = x /\ \A j \in 1..(i - 1) : list[j] # x

----------------------------------------------------------------------------
(* C3 *)

\* C3: in every reachable state every mounted Carousel displays at most 8
\* cities, none of them twice, and never the city it is given as selected;
\* the Carousel of the frame that is shown is given Home's selected city.
C3_CarouselBounded ==
    \A f \in frames :
        /\ Len(f.displayed) <= 8
        /\ NoDuplicates(f.displayed)
        /\ f.sel \notin Range(f.displayed)
        /\ (~f.exiting => f.sel = selectedCity
                          /\ selectedCity \notin Range(f.displayed))

\* a Carousel that had more than 8 candidates shows exactly 8
C3_Witness ==
    \E f \in frames :
        /\ ~f.pending
        /\ ~f.exiting
        /\ Len(f.displayed) = 8
        /\ Cardinality(Range(cities.arr) \cup Range(FallbackCities)) > 9
        /\ \E i, j \in 1..Len(cities.arr) : i # j /\ cities.arr[i] = cities.arr[j]

----------------------------------------------------------------------------
(* C7 *)

\* the list the claim describes, stated without computing it: d holds
\* distinct entries of `all` other than sel, ordered by their first
\* occurrence in `all`, all of them or else the 8 that occur first
IsCarouselOutput(d, all, sel) ==
    LET cand == Range(all) \ {sel}
    IN  /\ Range(d) \subseteq cand
        /\ NoDuplicates(d)
        /\ Len(d) = (IF Cardinality(cand) < 8 THEN Cardinality(cand) ELSE 8)
        /\ \A i, j \in 1..Len(d) :
               i < j => FirstIndex(all, d[i]) < FirstIndex(all, d[j])
        /\ \A u \in cand \ Range(d) : \A i \in 1..Len(d) :
               FirstIndex(all, d[i]) < FirstIndex(all, u)

\* C7: once its effect has run, a Carousel displays the first 8 of: the
\* backend list followed by leeds1, leeds2, london1, london2, without the
\* selected city, first occurrences only; for [leeds1, london3] with leeds1
\* selected that is london3 followed by the other three fallback ids.
C7_CarouselOutput ==
    \A f \in frames :
        ~f.pending =>
            /\ IsCarouselOutput(f.displayed,
                   cities.arr \o <<"leeds1", "leeds2", "london1", "london2">>,
                   f.sel)
            /\ (cities.arr = <<"leeds1", "london3">> /\ f.sel = "leeds1"
                   => f.displayed = <<"london3", "leeds2", "london1", "london2">>)

\* the example of the claim has been computed
C7_Witness ==
    \E f \in frames :
        /\ ~f.pending
        /\ cities.arr = <<"leeds1", "london3">>
        /\ f.sel = "leeds1"
        /\ Len(f.displayed) = 4

----------------------------------------------------------------------------
(* C1 *)

\* C1: selecting the city whose overlay is open starts its close, and a
\* close that has started leads to the closed state (no city selected, no
\* overlay, root route) unless it is cancelled by the selection of another
\* city, which lowers the closing flag.
C1_ToggleCloses ==
    /\ [][\A x \in Ids :
             (OpenCity(x) /\ handleSelect(x))
                 => (ClosingCity(x)' /\ Exiting(frames') # {})]_vars
    /\ (selectedCity # Null /\ isClosing) ~> (Closed \/ ~isClosing)

\* a close has run to its end
C1_Witness ==
    /\ Closed
    /\ isClosing
    /\ ~isMapVisible
    /\ back # <<>>
    /\ back[1] # RootRoute

----------------------------------------------------------------------------
(* C9 *)

\* the step is the Back button: only the location moves
HistoryStep == back # <<>> /\ route' = back[1] /\ back' = <<>> /\ frames' = frames

\* the step ends the last exit animation in flight
LastExitEnds == Cardinality(Exiting(frames)) = 1 /\ frames' = {}

\* C9: while city x is closing, a step of the application keeps x selected
\* and leaves the route alone, or it is the end of the last exit animation
\* and clears the selection together with setting the root route, or it
\* selects another city; selecting x again changes nothing; and a selection
\* is never cleared in any other way.
C9_CloseOrdered ==
    [][/\ \A x \in Ids :
            ClosingCity(x) =>
                /\ Exiting(frames) # {}
                /\ \/ ClosingCity(x)' /\ (route' = route \/ HistoryStep)
                   \/ selectedCity' = Null /\ route' = RootRoute /\ LastExitEnds
                   \/ selectedCity' \notin {x, Null} /\ isMapVisible'
                /\ (handleSelect(x) => UNCHANGED vars)
       /\ (selectedCity # Null /\ selectedCity' = Null)
              => (isClosing /\ ~isMapVisible /\ LastExitEnds
                  /\ route' = RootRoute)]_vars

\* a close is in flight with the route still at the city's path
C9_Witness ==
    \E f \in Exiting(frames) :
        /\ ClosingCity(f.key)
        /\ route = MapRoute(f.key)
        /\ ~f.pending

----------------------------------------------------------------------------
(* C10 *)

\* the step removes a frame whose exit animation ended
ExitEnds == \E f \in Exiting(frames) : frames' = frames \ {f} \/ frames' = {}

----------------------------------------------------------------------------
(* C6 *)

\* C6 as claimed: selecting y while x is open selects y, sets the route to
\* /map/y, keeps the overlay shown, and the frame shown afterwards is the
\* instance shown before.
C6_SameFrameKept ==
    [][\A x, y \in Ids :
          (OpenCity(x) /\ x # y /\ handleSelect(y))
              => /\ OpenCity(y)'
                 /\ route' = MapRoute(y)
                 /\ PresentIds(frames') = PresentIds(frames)]_vars

\* C6 as amended: selecting y while x is open selects y, sets the route to
\* /map/y and keeps the overlay flag up in one step; the frame of x leaves
\* the tree to play its exit animation and the frame shown for y is another
\* instance.
C6_FrameReplaced ==
    [][\A x, y \in Ids :
          (OpenCity(x) /\ x # y /\ handleSelect(y))
              => /\ OpenCity(y)'
                 /\ route' = MapRoute(y)
                 /\ PresentIds(frames') \cap PresentIds(frames) = {}
                 /\ \A f \in Present(frames) :
                        \E g \in Exiting(frames') : g.id = f.id /\ g.key = x
                 /\ \E g \in Present(frames') : g.key = y /\ g.sel = y]_vars

\* the frame of the city left behind is exiting beside the frame shown
C6_Witness ==
    \E f \in Exiting(frames), g \in Present(frames) :
        /\ OpenCity(g.key)
        /\ f.key # g.key
        /\ f.id # g.id
        /\ route = MapRoute(g.key)
        /\ back = <<MapRoute(f.key)>>

----------------------------------------------------------------------------
(* C2 *)

\* C2: in every reachable state the route is /map/x exactly when x is the
\* selected city, and the root route exactly when no city is selected.
C2_RouteMirrorsSelection ==
    IF selectedCity = Null THEN route = RootRoute
    ELSE route = MapRoute(selectedCity)

----------------------------------------------------------------------------
(* C4 *)

\* the outcomes the claim counts as failures: network error, non-2xx
\* status, a body that is not JSON, a JSON body without a "cities" array
IsFailure(r) ==
    \/ r.kind = "network_error"
    \/ ~r.ok
    \/ ~r.parses
    \/ ~r.object
    \/ r.field.t # "array"

\* C4: after a failed request the city list is the empty list, an error has
\* been logged and the grid is rendered, with no thumbnail.
C4_FailureLeavesEmptyGrid ==
    (fetchState = "done" /\ IsFailure(response))
        => (cities = JsArray(<<>>) /\ logged /\ ~crashed)

----------------------------------------------------------------------------
(* C5 *)

\* the text the claim expects for a city: its registered display name, or
\* the raw identifier when the registry lacks it
ExpectedName(city) ==
    IF city \in DOMAIN cityNames THEN cityNames[city] ELSE city

\* C5: every thumbnail of the grid and the title of the open overlay show
\* the registered display name of their city, or its raw identifier when
\* the registry lacks it.
C5_NameOrRawIdentifier ==
    ~crashed =>
        /\ \A i \in 1..Len(cities.arr) :
               RenderedText(ThumbnailLabel(cities.arr[i]))
                   = ExpectedName(cities.arr[i])
        /\ \A f \in Present(frames) :
               RenderedText(OverlayTitle(f.sel)) = ExpectedName(f.sel)

----------------------------------------------------------------------------
(* C8 *)

\* C8: at the detail path without a city parameter the application shows
\* the "no city parameter" error state.
C8_NoCityErrorShown ==
    (Len(route) = 1 /\ route[1] = "map") => AppView(route) = "NoCityError"

====
